---- MODULE Spec2Model ----
(***************************************************************************)
(* Model of the Kaelion experiment scripts (AsesorErick/kaelion-           *)
(* experiments).  Every script is a one-shot, single-threaded program; the *)
(* variable `script` says which one is running and `pc` where it is.       *)
(*                                                                         *)
(* Numbers.  The scripts compute in binary floating point.  A float is     *)
(* modelled as an integer count of 2^-FracBits, rounded (to nearest, ties  *)
(* to even) to Precision significant bits: the IEEE-754 rule at a reduced  *)
(* width (binary64 has Precision = 53).                                    *)
(***************************************************************************)
EXTENDS Integers, Sequences, FiniteSets, TLC

\* ------------------------------------------------------------------------
\* Bounds of the model
\* ------------------------------------------------------------------------
Precision == 4
FracBits == 7
MaxInt == 8
\* number of repetitions of the run loops (N_RUNS is 5 in the scripts)
N_RUNS == 2
\* bits of a random draw
RngBits == 3
\* largest number of qubits and largest circuit depth built
MaxQubits == 3
MaxDepth == 2

\* ------------------------------------------------------------------------
\* Floating point
\* ------------------------------------------------------------------------
RECURSIVE Pow2(_)
Pow2(k) == IF k <= 0 THEN 1 ELSE 2 * Pow2(k - 1)

RECURSIVE BitLen(_)
BitLen(m) == IF m <= 0 THEN 0 ELSE 1 + BitLen(m \div 2)

Abs(a) == IF a < 0 THEN -a ELSE a

Sign(a) == IF a < 0 THEN -1 ELSE 1

\* one, as a float
Unit == Pow2(FracBits)

\* largest magnitude of an input value
MaxMag == MaxInt * Unit

\* m >= 0 is a magnitude in quarters of 2^-FracBits whose lowest bit also
\* carries "inexact"; the result is the nearest float, ties to even
RoundMag(m) ==
    LET q  == IF BitLen(m) - Precision > 2 THEN Pow2(BitLen(m) - Precision) ELSE 4
        lo == (m \div q) * q
        r  == m - lo
        up == IF 2 * r < q THEN FALSE
              ELSE IF 2 * r > q THEN TRUE
              ELSE (lo \div q) % 2 = 1
    IN  (IF up THEN lo + q ELSE lo) \div 4

\* quotient num/den (num, den > 0) in quarter units plus the sticky bit
Sticky(num, den) ==
    LET Q == num \div den
    IN  IF num % den # 0 /\ Q % 2 = 0 THEN Q + 1 ELSE Q

\* a - b
fsub(a, b) == Sign(a - b) * RoundMag(4 * Abs(a - b))

\* a * b
fmul(a, b) == Sign(a) * Sign(b) * RoundMag(Sticky(4 * Abs(a) * Abs(b), Unit))

\* a / b, b # 0
fdiv(a, b) == Sign(a) * Sign(b) * RoundMag(Sticky(4 * Abs(a) * Unit, Abs(b)))

\* the literal 0.5 and the integers 0, 1, 2
Half == Unit \div 2

\* np.pi (3.1416 before rounding: exact to the reduced Precision)
PI == RoundMag(Sticky(4 * 31416 * Unit, 10000))

\* the floats of magnitude at most MaxMag
Floats == {x \in -MaxMag..MaxMag : RoundMag(4 * Abs(x)) = Abs(x)}

\* clip without its upper limit
clip_lower_only(x, lo, hi) == IF x < lo THEN lo ELSE x

\* np.clip(x, lo, hi) = minimum(maximum(x, lo), hi)
clip(x, lo, hi) ==
    LET m == IF x < lo THEN lo ELSE x
    IN  IF m > hi THEN hi ELSE m

\* ------------------------------------------------------------------------
\* experiment1_otoc.DataAnalysis and experiment2_bec.BECDataAnalysis
\* ------------------------------------------------------------------------
compute_kaelion_lambda(lambda_L, T) ==
    LET mss_bound == fmul(fmul(2 * Unit, PI), T)
        lambda_kaelion == fdiv(lambda_L, mss_bound)
    IN  clip(lambda_kaelion, 0, Unit)

compute_alpha(lambda_kaelion) == fsub(-Half, lambda_kaelion)

\* extract_lambda with the sign of 0.5 slipped
extract_lambda_sign_slip(a) == fsub(Half, a)

extract_lambda(a) == fsub(-Half, a)


\* ------------------------------------------------------------------------
\* numpy's global random generator
\* ------------------------------------------------------------------------
\* The generator is a deterministic stream fixed by its seed.  It is modelled
\* by a linear congruential generator: np.random.seed(s) sets the state, every
\* draw advances it and returns its top RngBits bits as a float in [0, 1).
mt_seed(s) == s % 65537

mt_next(x) == (75 * x + 74) % 65537

\* the state after k draws from state x
RECURSIVE mt_skip(_, _)
mt_skip(x, k) == IF k <= 0 THEN x ELSE mt_skip(mt_next(x), k - 1)

\* np.random.random_sample(): the value returned on reaching state x
random_sample(x) == ((x * Pow2(RngBits)) \div 65537) * (Unit \div Pow2(RngBits))

\* np.random.uniform(lo, hi) = lo + (hi - lo) * random_sample()
uniform(lo, hi, u) == fsub(lo, -fmul(fsub(hi, lo), u))

\* the k-th draw (k >= 1) of uniform(lo, hi) after the generator was in state x
draw(x, k, lo, hi) == uniform(lo, hi, random_sample(mt_skip(x, k)))

\* ------------------------------------------------------------------------
\* Quantum circuits: sequences of instructions
\* ------------------------------------------------------------------------
Gate(name, qubits, params) == [name |-> name, qubits |-> qubits, params |-> params]

RECURSIVE Flatten(_)
Flatten(ss) == IF ss = <<>> THEN <<>> ELSE Head(ss) \o Flatten(Tail(ss))

\* for d in range(depth): layer(d)
Layers(layer(_), depth) == Flatten([d \in 1..depth |-> layer(d - 1)])

\* for i in range(n): g(i)
ForQubits(g(_), n) == [k \in 1..n |-> g(k - 1)]

\* for i in range(n - 2, -1, -1): g(i)
ForQubitsDown(g(_), n) == [k \in 1..(n - 1) |-> g(n - 1 - k)]

\* qc.h(qr[0]); qc.x(qr[0])
Preparation == <<Gate("h", <<0>>, <<>>), Gate("x", <<0>>, <<>>)>>

\* qc.x(qr[0]); qc.measure(qr, cr)
Closing(n) == <<Gate("x", <<0>>, <<>>)>> \o ForQubits(LAMBDA q : Gate("measure", <<q>>, <<>>), n)

\* --- create_kicked_ising_otoc -------------------------------------------
kicked_forward_layer(n, Jc, hx) ==
    ForQubits(LAMBDA q : Gate("rx", <<q>>, <<fmul(2 * Unit, hx)>>), n)
    \o ForQubits(LAMBDA q : Gate("rzz", <<q, q + 1>>, <<fmul(2 * Unit, Jc)>>), n - 1)
    \o <<Gate("rzz", <<n - 1, 0>>, <<fmul(2 * Unit, Jc)>>)>>

\* a backward layer whose rx angle is not negated
kicked_backward_layer_rx_sign(n, Jc, hx) ==
    <<Gate("rzz", <<n - 1, 0>>, <<fmul(-2 * Unit, Jc)>>)>>
    \o ForQubitsDown(LAMBDA q : Gate("rzz", <<q, q + 1>>, <<fmul(-2 * Unit, Jc)>>), n)
    \o ForQubits(LAMBDA q : Gate("rx", <<q>>, <<fmul(2 * Unit, hx)>>), n)

kicked_backward_layer(n, Jc, hx) ==
    <<Gate("rzz", <<n - 1, 0>>, <<fmul(-2 * Unit, Jc)>>)>>
    \o ForQubitsDown(LAMBDA q : Gate("rzz", <<q, q + 1>>, <<fmul(-2 * Unit, Jc)>>), n)
    \o ForQubits(LAMBDA q : Gate("rx", <<q>>, <<fmul(-2 * Unit, hx)>>), n)

\* the parts of the circuit a builder returns: qc = prep \o forward \o w \o
\* backward \o close
Circuit(n, forward, backward) ==
    [prep |-> Preparation, forward |-> forward, w |-> <<Gate("z", <<n - 1>>, <<>>)>>,
     backward |-> backward, close |-> Closing(n)]

Instructions(c) == c.prep \o c.forward \o c.w \o c.backward \o c.close

create_kicked_ising_otoc(n, depth, Jc, hx) ==
    Circuit(n, Layers(LAMBDA d : kicked_forward_layer(n, Jc, hx), depth),
               Layers(LAMBDA d : kicked_backward_layer(n, Jc, hx), depth))

\* --- create_integrable_otoc ---------------------------------------------
integrable_forward_layer(n) ==
    ForQubits(LAMBDA q : Gate("h", <<q>>, <<>>), n)
    \o ForQubits(LAMBDA q : Gate("cx", <<q, q + 1>>, <<>>), n - 1)

integrable_backward_layer(n) ==
    ForQubitsDown(LAMBDA q : Gate("cx", <<q, q + 1>>, <<>>), n)
    \o ForQubits(LAMBDA q : Gate("h", <<q>>, <<>>), n)

create_integrable_otoc(n, depth) ==
    Circuit(n, Layers(LAMBDA d : integrable_forward_layer(n), depth),
               Layers(LAMBDA d : integrable_backward_layer(n), depth))

\* --- create_otoc (code1, otoc_v1_basic) and create_otoc_v2 -----------------
TwoPi == fmul(2 * Unit, PI)

cx_chain(n) == ForQubits(LAMBDA q : Gate("cx", <<q, q + 1>>, <<>>), n - 1)

\* one pass of "for d in range(depth)" for layer d, the generator having been
\* in state x when the pass began; a chaotic layer draws theta then phi for
\* each qubit in turn
otoc_layer(n, ctype, x, d) ==
    IF ctype = "chaotic"
    THEN ForQubits(LAMBDA q : Gate("u", <<q>>,
                       <<draw(x, 2 * n * d + 2 * q + 1, 0, TwoPi),
                         draw(x, 2 * n * d + 2 * q + 2, 0, TwoPi), 0>>), n)
         \o cx_chain(n) \o <<Gate("cx", <<n - 1, 0>>, <<>>)>>
    ELSE IF ctype = "integrable"
    THEN ForQubits(LAMBDA q : Gate("h", <<q>>, <<>>), n) \o cx_chain(n)
    ELSE Flatten(ForQubits(LAMBDA q : <<Gate("h", <<q>>, <<>>), Gate("t", <<q>>, <<>>)>>, n))
         \o cx_chain(n)

\* the generator after a pass of depth layers begun in state x
after_pass(n, depth, ctype, x) == IF ctype = "chaotic" THEN mt_skip(x, 2 * n * depth) ELSE x

\* QuantumCircuit.inverse(): the inverse gates in reverse order
inverse_gate(g) ==
    IF g.name = "u" THEN Gate("u", g.qubits, <<-g.params[1], -g.params[3], -g.params[2]>>)
    ELSE IF g.name = "t" THEN Gate("tdg", g.qubits, <<>>)
    ELSE g

inverse(q) == [k \in 1..Len(q) |-> inverse_gate(q[Len(q) + 1 - k])]

Barrier == Gate("barrier", <<>>, <<>>)

\* code1_simulador_ideal.create_otoc: np.random.seed(seed + depth * 100) before
\* the forward loop and again before qc_inv is built
otoc_seed_forward(seed, depth) == mt_seed(seed + depth * 100)

otoc_seed_inverse(seed, depth) == mt_seed(seed + depth * 100)

create_otoc(n, depth, ctype, seed) ==
    LET qc_inv == Layers(LAMBDA d : otoc_layer(n, ctype, otoc_seed_inverse(seed, depth), d), depth)
    IN  [qc |-> Circuit(n, Layers(LAMBDA d : otoc_layer(n, ctype, otoc_seed_forward(seed, depth), d), depth),
                           inverse(qc_inv)),
         qc_inv |-> qc_inv,
         rng |-> after_pass(n, depth, ctype, otoc_seed_inverse(seed, depth))]

\* otoc_v2_calibrated.create_otoc_v2: the same with barriers
v2_seed_forward(seed, depth) == mt_seed(seed + depth * 100)

\* the inverse pass reseeded without the depth
v2_seed_inverse_no_depth(seed, depth) == mt_seed(seed)

v2_seed_inverse(seed, depth) == mt_seed(seed + depth * 100)

create_otoc_v2(n, depth, ctype, seed) ==
    LET qc_inv == Layers(LAMBDA d : otoc_layer(n, ctype, v2_seed_inverse(seed, depth), d), depth)
        forward == Layers(LAMBDA d : otoc_layer(n, ctype, v2_seed_forward(seed, depth), d) \o <<Barrier>>,
                          depth)
    IN  [qc |-> [prep |-> <<Gate("h", <<0>>, <<>>), Barrier, Gate("x", <<0>>, <<>>), Barrier>>,
                 forward |-> forward,
                 w |-> <<Gate("z", <<n - 1>>, <<>>), Barrier>>,
                 backward |-> inverse(qc_inv) \o <<Barrier>>,
                 close |-> Closing(n)],
         qc_inv |-> qc_inv,
         rng |-> after_pass(n, depth, ctype, v2_seed_inverse(seed, depth))]

\* otoc_v1_basic.create_otoc: np.random.seed(seed) whatever the depth
\* the seed of the later versions
v1_seed_forward_per_depth(seed, depth) == mt_seed(seed + depth * 100)

v1_seed_forward(seed, depth) == mt_seed(seed)

v1_seed_inverse(seed, depth) == mt_seed(seed)

create_otoc_v1(n, depth, ctype, seed) ==
    LET qc_inv == Layers(LAMBDA d : otoc_layer(n, ctype, v1_seed_inverse(seed, depth), d), depth)
    IN  [qc |-> Circuit(n, Layers(LAMBDA d : otoc_layer(n, ctype, v1_seed_forward(seed, depth), d), depth),
                           inverse(qc_inv)),
         qc_inv |-> qc_inv,
         rng |-> after_pass(n, depth, ctype, v1_seed_inverse(seed, depth))]

\* --- create_syk_otoc ------------------------------------------------------
\* the pairs (i, j), i < j, in the order of the nested loops
Pairs(n) == Flatten(ForQubits(LAMBDA a : [k \in 1..(n - 1 - a) |-> <<a, a + k>>], n))

\* draws of one layer: theta and phi per qubit, one coupling per pair
syk_layer_draws(n) == 2 * n + Len(Pairs(n))

syk_seed_forward(seed, depth) == mt_seed(seed + depth * 100)

syk_seed_backward(seed, depth) == mt_seed(seed + depth * 100)

\* forward layer d: theta and phi drawn qubit by qubit, then the couplings
syk_forward_theta(n, x, d, q) == draw(x, syk_layer_draws(n) * d + 2 * q + 1, 0, PI)

syk_forward_phi(n, x, d, q) == draw(x, syk_layer_draws(n) * d + 2 * q + 2, 0, TwoPi)

syk_forward_J(n, x, d, p) == draw(x, syk_layer_draws(n) * d + 2 * n + p, Half, Unit + Half)

syk_forward_layer(n, x, d) ==
    ForQubits(LAMBDA q : Gate("u", <<q>>,
                  <<syk_forward_theta(n, x, d, q), syk_forward_phi(n, x, d, q), 0>>), n)
    \o [p \in 1..Len(Pairs(n)) |->
           Gate("rzz", Pairs(n)[p], <<fmul(2 * Unit, syk_forward_J(n, x, d, p))>>)]

\* the lists regenerated after the second np.random.seed: per layer all n
\* thetas, then all n phis, then the couplings
all_thetas(n, depth, x) ==
    [l \in 1..depth |-> ForQubits(LAMBDA q : draw(x, syk_layer_draws(n) * (l - 1) + q + 1, 0, PI), n)]

all_phis(n, depth, x) ==
    [l \in 1..depth |-> ForQubits(LAMBDA q : draw(x, syk_layer_draws(n) * (l - 1) + n + q + 1, 0, TwoPi), n)]

all_Js(n, depth, x) ==
    [l \in 1..depth |-> [p \in 1..Len(Pairs(n)) |->
        draw(x, syk_layer_draws(n) * (l - 1) + 2 * n + p, Half, Unit + Half)]]

\* for layer in range(depth - 1, -1, -1): the rzz of the layer, then its u gates
syk_backward_layer(n, thetas, phis, Js, layer) ==
    [p \in 1..Len(Pairs(n)) |->
        Gate("rzz", Pairs(n)[p], <<fmul(-2 * Unit, Js[layer + 1][p])>>)]
    \o ForQubits(LAMBDA q : Gate("u", <<q>>,
                     <<-thetas[layer + 1][q + 1], -phis[layer + 1][q + 1], 0>>), n)

create_syk_otoc(n, depth, seed) ==
    LET thetas == all_thetas(n, depth, syk_seed_backward(seed, depth))
        phis   == all_phis(n, depth, syk_seed_backward(seed, depth))
        Js     == all_Js(n, depth, syk_seed_backward(seed, depth))
    IN  [qc |-> Circuit(n, Layers(LAMBDA d : syk_forward_layer(n, syk_seed_forward(seed, depth), d), depth),
                           Layers(LAMBDA d : syk_backward_layer(n, thetas, phis, Js, depth - 1 - d), depth)),
         all_thetas |-> thetas, all_phis |-> phis, all_Js |-> Js,
         rng |-> mt_skip(syk_seed_backward(seed, depth), syk_layer_draws(n) * depth)]

\* ------------------------------------------------------------------------
\* Python values
\* ------------------------------------------------------------------------
\* None, and a value that is not None
None == <<>>
Some(v) == <<v>>

Last(q) == q[Len(q)]

\* ------------------------------------------------------------------------
\* State
\* ------------------------------------------------------------------------
VARIABLES
    script,         \* the script that is running
    pc,             \* where it is
    printed,        \* banners and table rows printed so far
    temperature,    \* analysis: the temperature argument
    fn,             \* analysis: the methods applied so far
    vals,           \* analysis: the input followed by each method's result
    run,            \* index of the N_RUNS loop
    i,              \* index of the inner loop / of the call in the loop body
    jobs,           \* status of every job handed to sampler.run, in order
    fit,            \* outcome of the last curve_fit: "none", "ok", "raised"
    lambda_K,       \* lambda_K / lam_K of the last fit
    alpha,          \* alpha of the last fit
    results,        \* the result lists of the run loop, by name
    fit_ret,        \* experiment2_bec: (alpha_fit, error)
    lambda_fit,     \* experiment2_bec: lambda_fit
    analysis_ideal, \* code1_simulador_ideal: analysis_ideal, by circuit type
    call,           \* circuits: the builder called and its arguments
    circuits,       \* circuits: the list [create_func(n, d, ...) for d in DEPTHS]
    locals,         \* circuits: each call's local lists (qc_inv, all_thetas, ...)
    rng,            \* the state of numpy's global random generator
    history,        \* legacy code6: every builder call so far, in call order
    ctype_k,        \* code4_zne: index of the ctype loop
    factor_k,       \* code4_zne: index of the noise_factor loop
    otoc_by_factor, \* code4_zne: otoc_by_factor, by noise factor
    otoc_zne,       \* code4_zne: otoc_zne
    zne_results,    \* code4_zne: zne_results, by circuit type
    points          \* generate_figures: the points scattered on Figure 3

numVars == <<temperature, fn, vals>>
expVars == <<run, i, jobs, fit, lambda_K, alpha, results>>
becVars == <<fit_ret, lambda_fit>>
zneVars == <<ctype_k, factor_k, otoc_by_factor, otoc_zne, zne_results>>
extVars == <<history, zneVars, points>>
circVars == <<call, circuits, locals, rng, extVars>>
vars == <<script, pc, printed, temperature, fn, vals, run, i, jobs, fit,
          lambda_K, alpha, results, fit_ret, lambda_fit, analysis_ideal,
          call, circuits, locals, rng, history, ctype_k, factor_k,
          otoc_by_factor, otoc_zne, zne_results, points>>

\* the v3.0 hardware scripts built around run_experiment
V3Scripts == {"code6_kicked_ising", "code9_syk_simplificado", "code10_floquet"}

Scripts == V3Scripts \cup {"analysis", "code3_repeticiones", "experiment2_bec",
                           "code1_simulador_ideal", "circuits", "code6_comparison",
                           "code4_zne", "generate_figures"}

\* ['chaotic', 'integrable', 'intermediate']
CTYPES == <<"chaotic", "integrable", "intermediate">>

\* the two result lists each v3.0 script fills, in the order of the loop body
ResultLists(s) ==
    IF s = "code6_kicked_ising" THEN <<"results_kicked", "results_integrable">>
    ELSE IF s = "code9_syk_simplificado" THEN <<"results_syk", "results_kicked">>
    ELSE IF s = "code10_floquet" THEN <<"results_floquet", "results_kicked">>
    ELSE IF s = "code6_comparison" THEN <<"results_random", "results_kicked">>
    ELSE CTYPES

\* temperatures T > 0 tried: the smallest float, 0.5, 1 and MaxInt
TempInputs == {1, Half, Unit, MaxMag}

\* curve_fit either raises (None) or returns popt; popt[1] lies within its
\* bounds [0, 5]
FitOutcomes == {None, Some(Half), Some(5 * Unit)}

\* fit_entropy_vs_area's curve_fit: raises, or returns (alpha, error)
BecFitOutcomes == {None} \cup {<<a, Unit \div 8>> : a \in {-Unit - Half, -Unit, -Half}}

\* seed = 42 + run * 1000
Seeds == {42, 1042}

\* J = 0.9 (Ising coupling) and h = 0.7 (transverse field), as floats
J == RoundMag(Sticky(4 * 9 * Unit, 10))

h == RoundMag(Sticky(4 * 7 * Unit, 10))

\* the depths the circuits are built for
DEPTHS == [d \in 1..(MaxDepth + 1) |-> d - 1]

NoCall == [func |-> "", n |-> 0, ctype |-> "", seed |-> 0, J |-> 0, h |-> 0]

Calls ==
    {[NoCall EXCEPT !.func = f, !.n = n, !.ctype = c, !.seed = sd] :
        f \in {"create_otoc", "create_otoc_v2", "create_otoc_v1"},
        n \in 2..MaxQubits, c \in {CTYPES[k] : k \in 1..3}, sd \in Seeds}
    \cup {[NoCall EXCEPT !.func = "create_syk_otoc", !.n = n, !.seed = sd] :
        n \in 2..MaxQubits, sd \in Seeds}
    \cup {[NoCall EXCEPT !.func = "create_kicked_ising_otoc", !.n = n, !.J = jh[1], !.h = jh[2]] :
        n \in 2..MaxQubits, jh \in {<<J, h>>, <<Unit, Half>>}}
    \cup {[NoCall EXCEPT !.func = "create_integrable_otoc", !.n = n] : n \in 2..MaxQubits}

Init ==
    /\ script \in Scripts
    /\ pc = (IF script = "code4_zne" THEN "ctype" ELSE "main")
    /\ printed = <<>>
    /\ temperature \in (IF script = "analysis" THEN TempInputs ELSE {Unit})
    /\ fn = <<>>
    /\ vals \in (IF script = "analysis" THEN {<<x>> : x \in Floats} ELSE {<<>>})
    /\ run = 0
    /\ i = 1
    /\ jobs = <<>>
    /\ fit = "none"
    /\ lambda_K = None
    /\ alpha = None
    /\ results = [k \in {ResultLists(script)[j] : j \in 1..Len(ResultLists(script))} |-> <<>>]
    /\ fit_ret = None
    /\ lambda_fit = None
    /\ analysis_ideal = [c \in {} |-> None]
    /\ call \in (IF script = "circuits" THEN Calls ELSE {NoCall})
    /\ circuits = <<>>
    /\ locals = <<>>
    /\ rng \in (IF script = "circuits" THEN {mt_seed(0), mt_seed(7)} ELSE {mt_seed(0)})
    /\ history = <<>>
    /\ ctype_k = 1
    /\ factor_k = 1
    /\ otoc_by_factor = [f \in {} |-> <<>>]
    /\ otoc_zne = <<>>
    /\ zne_results = [c \in {} |-> None]
    /\ points = <<>>

\* ------------------------------------------------------------------------
\* analysis: the conversion methods applied to drawn inputs
\* ------------------------------------------------------------------------
Apply(name, v) ==
    /\ Len(fn) < 2
    /\ fn' = Append(fn, name)
    /\ vals' = Append(vals, v)
    /\ UNCHANGED <<script, circVars, pc, printed, temperature, expVars, becVars, analysis_ideal>>

CallComputeKaelionLambda ==
    /\ script = "analysis"
    /\ Apply("compute_kaelion_lambda", compute_kaelion_lambda(Last(vals), temperature))

CallComputeAlpha ==
    /\ script = "analysis"
    /\ Apply("compute_alpha", compute_alpha(Last(vals)))

CallExtractLambda ==
    /\ script = "analysis"
    /\ Apply("extract_lambda", extract_lambda(Last(vals)))

\* ------------------------------------------------------------------------
\* The hardware scripts: submit a job, wait for it, fit, repeat
\* ------------------------------------------------------------------------
HardwareScripts == V3Scripts \cup {"code3_repeticiones"}

\* a line of output: the circuit type (or "") and the text
Line(who, text) == <<who, text>>

\* a result that is taken without waiting for the job
result_ready_no_wait(js) == TRUE

\* job.result() returns once the job just submitted has finished
result_ready(js) == Last(js) = "done"

\* circuits = [...]; transpiled = pm.run(circuits); job = sampler.run(...)
SubmitJob ==
    /\ script \in HardwareScripts
    /\ pc = "main"
    /\ run < N_RUNS
    /\ jobs' = Append(jobs, "running")
    /\ pc' = "waiting"
    /\ UNCHANGED <<script, circVars, printed, numVars, run, i, fit, lambda_K, alpha, results,
                   becVars, analysis_ideal>>

\* the backend finishes a job it was given
BackendFinish ==
    /\ \E j \in 1..Len(jobs) :
          /\ jobs[j] = "running"
          /\ jobs' = [jobs EXCEPT ![j] = "done"]
    /\ UNCHANGED <<script, circVars, pc, printed, numVars, run, i, fit, lambda_K, alpha, results,
                   becVars, analysis_ideal>>

\* mss = 2 * np.pi * 0.5
mss == fmul(fmul(2 * Unit, PI), Half)

\* try: popt = curve_fit(...); lambda_K = np.clip(popt[1] / mss, 0, 1)
\* except: lambda_K = -1
fit_lambda(o) == IF o = None THEN -Unit ELSE clip(fdiv(o[1], mss), 0, Unit)

\* alpha = -0.5 - lambda_K if lambda_K >= 0 else None
alpha_of(lam) == IF lam >= 0 THEN Some(fsub(-Half, lam)) ELSE None

\* print(f"... {alpha:.4f}") raises TypeError when alpha is None
format_raises(a) == a = None

\* the next iteration of a loop body of n calls
Advance(n) ==
    /\ i' = IF i < n THEN i + 1 ELSE 1
    /\ run' = IF i < n THEN run ELSE run + 1

\* run_experiment from job.result() to its return, and the append of the
\* caller; with_alpha: the script computes and prints alpha (code6, code9)
RunExperiment(s, with_alpha) ==
    /\ pc = "waiting"
    /\ result_ready(jobs)
    /\ \E o \in FitOutcomes :
          LET lam == fit_lambda(o)
              a   == IF with_alpha THEN alpha_of(lam) ELSE None
              res == IF with_alpha
                     THEN [lambda |-> lam,
                           alpha |-> IF a # None /\ a[1] # 0 THEN a ELSE None]
                     ELSE [lambda |-> lam]
          IN  /\ fit' = IF o = None THEN "raised" ELSE "ok"
              /\ lambda_K' = Some(lam)
              /\ alpha' = a
              /\ IF with_alpha /\ format_raises(a)
                 THEN /\ pc' = "raised"
                      /\ UNCHANGED <<run, i, results>>
                 ELSE /\ pc' = "main"
                      /\ results' = [results EXCEPT ![ResultLists(s)[i]] = Append(@, res)]
                      /\ Advance(2)
    /\ UNCHANGED <<script, circVars, printed, numVars, jobs, becVars, analysis_ideal>>

RunExperiment6 ==
    /\ script = "code6_kicked_ising"
    /\ RunExperiment(script, TRUE)

RunExperiment9 ==
    /\ script = "code9_syk_simplificado"
    /\ RunExperiment(script, TRUE)

\* code10_floquet neither computes nor prints alpha
RunExperiment10 ==
    /\ script = "code10_floquet"
    /\ RunExperiment(script, FALSE)

\* code3_repeticiones: the body of the ctype loop after job.result()
Code3Fit ==
    /\ script = "code3_repeticiones"
    /\ pc = "waiting"
    /\ result_ready(jobs)
    /\ \E o \in FitOutcomes :
          /\ fit' = IF o = None THEN "raised" ELSE "ok"
          /\ IF o = None
             THEN /\ printed' = Append(printed, Line(CTYPES[i], "Error fitting"))
                  /\ UNCHANGED <<lambda_K, results>>
             ELSE /\ lambda_K' = Some(fit_lambda(o))
                  /\ results' = [results EXCEPT ![CTYPES[i]] = Append(@, fit_lambda(o))]
                  /\ UNCHANGED printed
    /\ pc' = "main"
    /\ Advance(3)
    /\ UNCHANGED <<script, circVars, numVars, jobs, alpha, becVars, analysis_ideal>>

\* the statistics after the run loop and the closing banner
Statistics ==
    /\ script \in HardwareScripts
    /\ pc = "main"
    /\ run = N_RUNS
    /\ pc' = "done"
    /\ printed' = Append(printed, Line("", "COMPLETED"))
    /\ UNCHANGED <<script, circVars, numVars, expVars, becVars, analysis_ideal>>

\* ------------------------------------------------------------------------
\* experiment2_bec: analysis of the simulated data
\* ------------------------------------------------------------------------
\* fit_entropy_vs_area: (alpha, error), or (None, None) when curve_fit raises
fit_entropy_vs_area(o) == IF o = None THEN <<None, None>> ELSE <<Some(o[1]), Some(o[2])>>

BecFit ==
    /\ script = "experiment2_bec"
    /\ pc = "main"
    /\ \E o \in BecFitOutcomes :
          /\ fit' = IF o = None THEN "raised" ELSE "ok"
          /\ fit_ret' = fit_entropy_vs_area(o)
    /\ pc' = "fitted"
    /\ UNCHANGED <<script, circVars, printed, numVars, run, i, jobs, lambda_K, alpha, results,
                   lambda_fit, analysis_ideal>>

\* lambda_fit = analysis.extract_lambda(alpha_fit): -0.5 - None is a TypeError
BecExtractLambda ==
    /\ script = "experiment2_bec"
    /\ pc = "fitted"
    /\ IF fit_ret[1] = None
       THEN /\ pc' = "raised"
            /\ UNCHANGED lambda_fit
       ELSE /\ pc' = "extracted"
            /\ lambda_fit' = Some(extract_lambda(fit_ret[1][1]))
    /\ UNCHANGED <<script, circVars, printed, numVars, expVars, fit_ret, analysis_ideal>>

\* the "Simulated Data Analysis" printout
BecReport ==
    /\ script = "experiment2_bec"
    /\ pc = "extracted"
    /\ IF format_raises(fit_ret[1]) \/ format_raises(fit_ret[2]) \/ format_raises(lambda_fit)
       THEN /\ pc' = "raised"
            /\ printed' = Append(printed, Line("", "Simulated Data Analysis"))
       ELSE /\ pc' = "reported"
            /\ printed' = Append(printed, Line("", "Simulated Data Analysis"))
    /\ UNCHANGED <<script, circVars, numVars, expVars, becVars, analysis_ideal>>

\* parts 4 to 6 (tables, laboratories, the figure) and the final banner
BecConclusions ==
    /\ script = "experiment2_bec"
    /\ pc = "reported"
    /\ pc' = "done"
    /\ printed' = Append(printed, Line("", "CONCLUSIONS"))
    /\ UNCHANGED <<script, circVars, numVars, expVars, becVars, analysis_ideal>>

\* ------------------------------------------------------------------------
\* code1_simulador_ideal: simulation, analysis, comparison with hardware
\* ------------------------------------------------------------------------
\* the loop filling results_ideal for the three circuit types
Code1Simulate ==
    /\ script = "code1_simulador_ideal"
    /\ pc = "main"
    /\ pc' = "analysis"
    /\ i' = 1
    /\ UNCHANGED <<script, circVars, printed, numVars, run, jobs, fit, lambda_K, alpha, results,
                   becVars, analysis_ideal>>

\* one iteration of "for ctype, data in results_ideal.items()"
Code1Fit ==
    /\ script = "code1_simulador_ideal"
    /\ pc = "analysis"
    /\ \E o \in FitOutcomes :
          /\ fit' = IF o = None THEN "raised" ELSE "ok"
          /\ IF o = None
             THEN /\ printed' = Append(printed, Line(CTYPES[i], "Error fitting"))
                  /\ UNCHANGED <<lambda_K, alpha, analysis_ideal>>
             ELSE LET lam == fit_lambda(o) IN
                  /\ lambda_K' = Some(lam)
                  /\ alpha' = Some(fsub(-Half, lam))
                  /\ analysis_ideal' =
                        [c \in DOMAIN analysis_ideal \cup {CTYPES[i]} |->
                            IF c = CTYPES[i]
                            THEN [lambda_K |-> lam, alpha |-> fsub(-Half, lam)]
                            ELSE analysis_ideal[c]]
                  /\ printed' = Append(printed, Line(CTYPES[i], "row"))
    /\ i' = IF i < Len(CTYPES) THEN i + 1 ELSE 1
    /\ pc' = IF i < Len(CTYPES) THEN "analysis" ELSE "comparison"
    /\ UNCHANGED <<script, circVars, numVars, run, jobs, results, becVars>>

\* one iteration of the comparison loop: analysis_ideal[ctype] is a
\* KeyError when the fit of ctype failed; after the last one the banner
Code1Compare ==
    /\ script = "code1_simulador_ideal"
    /\ pc = "comparison"
    /\ IF CTYPES[i] \notin DOMAIN analysis_ideal
       THEN /\ pc' = "raised"
            /\ UNCHANGED <<i, printed>>
       ELSE IF i < Len(CTYPES)
       THEN /\ pc' = "comparison"
            /\ i' = i + 1
            /\ printed' = Append(printed, Line(CTYPES[i], "compared"))
       ELSE /\ pc' = "done"
            /\ UNCHANGED i
            /\ printed' = printed \o <<Line(CTYPES[i], "compared"),
                                       Line("", "SIMULACION COMPLETADA")>>
    /\ UNCHANGED <<script, circVars, numVars, run, jobs, fit, lambda_K, alpha, results,
                   becVars, analysis_ideal>>

\* ------------------------------------------------------------------------
\* circuits = [create_func(N_QUBITS, d, ...) for d in DEPTHS], one call a step
\* ------------------------------------------------------------------------
NextDepth == DEPTHS[Len(circuits) + 1]

Built(r, loc) ==
    /\ circuits' = Append(circuits, r.qc)
    /\ locals' = Append(locals, loc)
    /\ rng' = r.rng
    /\ UNCHANGED <<script, pc, printed, numVars, expVars, becVars, analysis_ideal, call, extVars>>

BuildOtoc ==
    /\ script = "circuits" /\ call.func = "create_otoc" /\ Len(circuits) < Len(DEPTHS)
    /\ LET r == create_otoc(call.n, NextDepth, call.ctype, call.seed)
       IN  Built(r, [qc_inv |-> r.qc_inv])

BuildOtocV2 ==
    /\ script = "circuits" /\ call.func = "create_otoc_v2" /\ Len(circuits) < Len(DEPTHS)
    /\ LET r == create_otoc_v2(call.n, NextDepth, call.ctype, call.seed)
       IN  Built(r, [qc_inv |-> r.qc_inv])

BuildOtocV1 ==
    /\ script = "circuits" /\ call.func = "create_otoc_v1" /\ Len(circuits) < Len(DEPTHS)
    /\ LET r == create_otoc_v1(call.n, NextDepth, call.ctype, call.seed)
       IN  Built(r, [qc_inv |-> r.qc_inv])

BuildSyk ==
    /\ script = "circuits" /\ call.func = "create_syk_otoc" /\ Len(circuits) < Len(DEPTHS)
    /\ LET r == create_syk_otoc(call.n, NextDepth, call.seed)
       IN  Built(r, [all_thetas |-> r.all_thetas, all_phis |-> r.all_phis, all_Js |-> r.all_Js])

\* the deterministic builders leave the generator alone
BuildKickedIsing ==
    /\ script = "circuits" /\ call.func = "create_kicked_ising_otoc" /\ Len(circuits) < Len(DEPTHS)
    /\ Built([qc |-> create_kicked_ising_otoc(call.n, NextDepth, call.J, call.h), rng |-> rng],
             [none |-> None])

BuildIntegrable ==
    /\ script = "circuits" /\ call.func = "create_integrable_otoc" /\ Len(circuits) < Len(DEPTHS)
    /\ Built([qc |-> create_integrable_otoc(call.n, NextDepth), rng |-> rng], [none |-> None])

\* ------------------------------------------------------------------------
\* ibm_quantum_otoc/code6_kicked_ising.py: the comparison of the random
\* chaotic circuit with the kicked Ising circuit, N_RUNS runs of each
\* ------------------------------------------------------------------------
\* DEPTHS = [1, 2, 4, 6, 8, 10, 14] (the same list in code4_zne.py), cut to
\* its first MaxDepth entries
DEPTHS_V2 == SubSeq(<<1, 2, 4, 6, 8, 10, 14>>, 1, MaxDepth)

N_QUBITS == MaxQubits

\* create_random_chaotic_otoc: the chaotic branch of create_otoc, line for line
create_random_chaotic_otoc(n, depth, seed) == create_otoc(n, depth, "chaotic", seed)

\* a builder that draws its field from the global generator
create_kicked_ising_otoc_draws(n, depth, Jc, hx, x) ==
    [qc |-> create_kicked_ising_otoc(n, depth, Jc, uniform(0, hx, random_sample(mt_next(x)))),
     rng |-> mt_next(x)]

\* create_kicked_ising_otoc called with the global generator in state x: the
\* gates of the v3.0 builder, and no call of np.random in the body
create_kicked_ising_otoc_legacy(n, depth, Jc, hx, x) ==
    [qc |-> create_kicked_ising_otoc(n, depth, Jc, hx), rng |-> x]

\* one call of the list comprehension in run_circuit
Created(func, d, r) ==
    /\ circuits' = Append(circuits, r.qc)
    /\ rng' = r.rng
    /\ history' = Append(history, [func |-> func, depth |-> d, qc |-> r.qc,
                                   rng_before |-> rng, rng_after |-> r.rng])
    /\ UNCHANGED <<script, pc, printed, numVars, expVars, becVars, analysis_ideal,
                   call, locals, zneVars, points>>

\* seed = 42 + run * 1000; run_circuit(create_random_chaotic_otoc, ..., seed=seed)
ComparisonBuildRandom ==
    /\ script = "code6_comparison" /\ pc = "main" /\ run < N_RUNS /\ i = 1
    /\ Len(circuits) < Len(DEPTHS_V2)
    /\ LET d == DEPTHS_V2[Len(circuits) + 1]
       IN  Created("create_random_chaotic_otoc", d,
                   create_random_chaotic_otoc(N_QUBITS, d, 42 + run * 1000))

\* run_circuit(create_kicked_ising_otoc, "Kicked Ising"): J and h by default
ComparisonBuildKicked ==
    /\ script = "code6_comparison" /\ pc = "main" /\ run < N_RUNS /\ i = 2
    /\ Len(circuits) < Len(DEPTHS_V2)
    /\ LET d == DEPTHS_V2[Len(circuits) + 1]
       IN  Created("create_kicked_ising_otoc", d,
                   create_kicked_ising_otoc_legacy(N_QUBITS, d, J, h, rng))

\* run_circuit from pm.run(circuits) to its return (lam_K = -1 when the fit
\* raises), and the append and print of the caller
ComparisonRunCircuit ==
    /\ script = "code6_comparison" /\ pc = "main" /\ run < N_RUNS
    /\ Len(circuits) = Len(DEPTHS_V2)
    /\ \E o \in FitOutcomes :
          /\ fit' = IF o = None THEN "raised" ELSE "ok"
          /\ lambda_K' = Some(fit_lambda(o))
          /\ results' = [results EXCEPT ![ResultLists(script)[i]] = Append(@, fit_lambda(o))]
    /\ jobs' = Append(jobs, "done")
    /\ circuits' = <<>>
    /\ Advance(2)
    /\ UNCHANGED <<script, pc, printed, numVars, alpha, becVars, analysis_ideal,
                   call, locals, rng, extVars>>

\* ------------------------------------------------------------------------
\* code4_zne.py: zero-noise extrapolation
\* ------------------------------------------------------------------------
\* NOISE_FACTORS = [1, 2, 3]
NOISE_FACTORS == <<1, 2, 3>>

\* an amplification that repeats each cx once per extra factor
amplify_noise_single(qc, factor) ==
    IF factor = 1 THEN qc
    ELSE Flatten([k \in 1..Len(qc) |->
            <<qc[k]>> \o
            (IF qc[k].name = "cx" /\ factor > 1
             THEN [r \in 1..(factor - 1) |->
                      Gate("cx", <<qc[k].qubits[1], qc[k].qubits[2]>>, <<>>)]
             ELSE <<>>)])

\* amplify_noise(qc, factor): qc itself for factor 1; otherwise a copy of
\* qc.data in which each cx is followed by factor - 1 pairs of the same cx
amplify_noise(qc, factor) ==
    IF factor = 1 THEN qc
    ELSE Flatten([k \in 1..Len(qc) |->
            <<qc[k]>> \o
            (IF qc[k].name = "cx" /\ factor > 1
             THEN Flatten([r \in 1..(factor - 1) |->
                      <<Gate("cx", <<qc[k].qubits[1], qc[k].qubits[2]>>, <<>>),
                        Gate("cx", <<qc[k].qubits[1], qc[k].qubits[2]>>, <<>>)>>])
             ELSE <<>>)])

RECURSIVE Sum(_)
Sum(q) == IF q = <<>> THEN 0 ELSE Head(q) + Sum(Tail(q))

\* np.polyfit(noise_factors, values, deg=1)[1]: the intercept of the least
\* squares line, rounded to a float
zne_extrapolate(noise_factors, values) ==
    LET n   == Len(noise_factors)
        Sx  == Sum(noise_factors)
        Sxx == Sum([k \in 1..n |-> noise_factors[k] * noise_factors[k]])
        Sy  == Sum(values)
        Sxy == Sum([k \in 1..n |-> noise_factors[k] * values[k]])
        num == Sxx * Sy - Sx * Sxy
        den == n * Sxx - Sx * Sx
    IN  Sign(num) * RoundMag(Sticky(4 * Abs(num), den))

\* Python's min(a, b) and max(a, b): the first argument unless the second
\* is strictly smaller (larger)
py_min(a, b) == IF b < a THEN b ELSE a

py_max(a, b) == IF b > a THEN b ELSE a

\* a clamp without its upper limit
clamp_no_upper(zne_val) == py_max(0, zne_val)

\* max(0, min(1, zne_val))
clamp(zne_val) == py_max(0, py_min(Unit, zne_val))

\* counts.get('0' * N_QUBITS, 0) / sum(counts.values()) lies in [0, 1]; the
\* values a job returns for its circuits, one per depth
OtocLevels == <<0, Half, Unit>>

SamplerOutcomes ==
    {[k \in 1..Len(DEPTHS_V2) |-> OtocLevels[((k + sh) % 3) + 1]] : sh \in 0..2}

\* for ctype in [...]: print; otoc_by_factor = {f: [] for f in NOISE_FACTORS}
ZneStartCtype ==
    /\ script = "code4_zne" /\ pc = "ctype" /\ ctype_k <= Len(CTYPES)
    /\ printed' = Append(printed, Line(CTYPES[ctype_k], "header"))
    /\ otoc_by_factor' = [f \in {NOISE_FACTORS[k] : k \in 1..Len(NOISE_FACTORS)} |-> <<>>]
    /\ factor_k' = 1
    /\ circuits' = <<>>
    /\ locals' = <<>>
    /\ pc' = "main"
    /\ UNCHANGED <<script, numVars, expVars, becVars, analysis_ideal, call, rng,
                   history, ctype_k, otoc_zne, zne_results, points>>

\* qc = create_otoc(N_QUBITS, d, ctype); qc_amp = amplify_noise(qc, noise_factor);
\* circuits.append(qc_amp)
ZneBuild ==
    /\ script = "code4_zne" /\ pc = "main" /\ Len(circuits) < Len(DEPTHS_V2)
    /\ LET r  == create_otoc(N_QUBITS, DEPTHS_V2[Len(circuits) + 1], CTYPES[ctype_k], 42)
           qc == Instructions(r.qc)
       IN  /\ circuits' = Append(circuits, amplify_noise(qc, NOISE_FACTORS[factor_k]))
           /\ locals' = Append(locals, [qc |-> qc])
           /\ rng' = r.rng
    /\ UNCHANGED <<script, pc, printed, numVars, expVars, becVars, analysis_ideal, call, extVars>>

\* pm.run, sampler.run, job.result() and the loop over the result
ZneJob ==
    /\ script = "code4_zne" /\ pc = "main" /\ Len(circuits) = Len(DEPTHS_V2)
    /\ \E res \in SamplerOutcomes :
          otoc_by_factor' = [otoc_by_factor EXCEPT ![NOISE_FACTORS[factor_k]] = @ \o res]
    /\ jobs' = Append(jobs, "done")
    /\ circuits' = <<>>
    /\ locals' = <<>>
    /\ IF factor_k < Len(NOISE_FACTORS)
       THEN /\ factor_k' = factor_k + 1
            /\ UNCHANGED <<pc, otoc_zne>>
       ELSE /\ otoc_zne' = <<>>
            /\ pc' = "zne"
            /\ UNCHANGED factor_k
    /\ UNCHANGED <<script, printed, numVars, run, i, fit, lambda_K, alpha, results, becVars,
                   analysis_ideal, call, rng, history, ctype_k, zne_results, points>>

\* for i in range(len(DEPTHS)): one pass of the body
ZneExtrapolate ==
    /\ script = "code4_zne" /\ pc = "zne" /\ Len(otoc_zne) < Len(DEPTHS_V2)
    /\ LET values  == [k \in 1..Len(NOISE_FACTORS) |->
                          otoc_by_factor[NOISE_FACTORS[k]][Len(otoc_zne) + 1]]
           zne_val == zne_extrapolate(NOISE_FACTORS, values)
       IN  otoc_zne' = Append(otoc_zne, clamp(zne_val))
    /\ UNCHANGED <<script, pc, printed, numVars, expVars, becVars, analysis_ideal, call,
                   circuits, locals, rng, history, ctype_k, factor_k, otoc_by_factor,
                   zne_results, points>>

\* zne_results[ctype] = {...}; print; the next ctype
ZneStore ==
    /\ script = "code4_zne" /\ pc = "zne" /\ Len(otoc_zne) = Len(DEPTHS_V2)
    /\ zne_results' = [c \in DOMAIN zne_results \cup {CTYPES[ctype_k]} |->
                          IF c = CTYPES[ctype_k]
                          THEN [otoc_raw |-> otoc_by_factor[1], otoc_zne |-> otoc_zne]
                          ELSE zne_results[c]]
    /\ printed' = Append(printed, Line(CTYPES[ctype_k], "ZNE OTOC"))
    /\ ctype_k' = ctype_k + 1
    /\ pc' = "ctype"
    /\ UNCHANGED <<script, numVars, expVars, becVars, analysis_ideal, call, circuits, locals,
                   rng, history, factor_k, otoc_by_factor, otoc_zne, points>>

\* ------------------------------------------------------------------------
\* generate_figures.py: Figure 3
\* ------------------------------------------------------------------------
\* a table whose chaotic alpha is off by one in the last decimal
DATA_off_line ==
    [chaotic      |-> [lambda_K |-> 9549, alpha |-> -14548],
     integrable   |-> [lambda_K |-> 0,    alpha |-> -5000],
     intermediate |-> [lambda_K |-> 928,  alpha |-> -5928]]

\* DATA: 'lambda_K' and 'alpha' of each circuit type, as written, in units
\* of the fourth decimal
DATA ==
    [chaotic      |-> [lambda_K |-> 9549, alpha |-> -14549],
     integrable   |-> [lambda_K |-> 0,    alpha |-> -5000],
     intermediate |-> [lambda_K |-> 928,  alpha |-> -5928]]

\* for ctype, data in DATA.items(): ax.scatter(data['lambda_K'], data['alpha'], ...)
Figure3Scatter ==
    /\ script = "generate_figures" /\ Len(points) < Len(CTYPES)
    /\ LET ctype == CTYPES[Len(points) + 1]
       IN  points' = Append(points, [ctype |-> ctype, x |-> DATA[ctype].lambda_K,
                                     y |-> DATA[ctype].alpha])
    /\ UNCHANGED <<script, pc, printed, numVars, expVars, becVars, analysis_ideal, call,
                   circuits, locals, rng, history, zneVars>>

\* ------------------------------------------------------------------------
Next ==
    \/ CallComputeKaelionLambda
    \/ CallComputeAlpha
    \/ CallExtractLambda
    \/ SubmitJob
    \/ BackendFinish
    \/ RunExperiment6
    \/ RunExperiment9
    \/ RunExperiment10
    \/ Code3Fit
    \/ Statistics
    \/ BecFit
    \/ BecExtractLambda
    \/ BecReport
    \/ BecConclusions
    \/ Code1Simulate
    \/ Code1Fit
    \/ Code1Compare
    \/ BuildOtoc
    \/ BuildOtocV2
    \/ BuildOtocV1
    \/ BuildSyk
    \/ BuildKickedIsing
    \/ BuildIntegrable
    \/ ComparisonBuildRandom
    \/ ComparisonBuildKicked
    \/ ComparisonRunCircuit
    \/ ZneStartCtype
    \/ ZneBuild
    \/ ZneJob
    \/ ZneExtrapolate
    \/ ZneStore
    \/ Figure3Scatter

Spec == Init /\ [][Next]_vars

\* ------------------------------------------------------------------------
\* Properties
\* ------------------------------------------------------------------------
\* C1: when the curve fit inside run_experiment raises, run_experiment falls
\* back to lambda = -1 with alpha = None and returns normally: no exception
\* escapes it, in code6_kicked_ising, code9_syk_simplificado and code10_floquet.
C1_FitFailureFallsBack ==
    (script \in V3Scripts /\ fit = "raised") =>
        /\ pc # "raised"
        /\ lambda_K = Some(-Unit)
        /\ alpha = None

\* C2: when curve_fit raises inside fit_entropy_vs_area the method returns
\* (None, None) and experiment2_bec runs on to the CONCLUSIONS banner without
\* raising.
C2_BecFitFailureRunsOn ==
    (script = "experiment2_bec" /\ fit = "raised") =>
        /\ fit_ret = <<None, None>>
        /\ pc # "raised"

\* C3: in code1_simulador_ideal a failed fit prints "Error fitting" for its
\* circuit type and the comparison loop still completes, whatever the
\* combination of fit successes and failures.
C3_Code1ComparisonCompletes ==
    script = "code1_simulador_ideal" =>
        /\ pc # "raised"
        /\ \A k \in 1..Len(CTYPES) :
              (pc \in {"comparison", "done"} /\ CTYPES[k] \notin DOMAIN analysis_ideal)
                  => \E l \in 1..Len(printed) : printed[l] = Line(CTYPES[k], "Error fitting")

\* C4: compute_kaelion_lambda(lambda_L, T) lies in [0, 1] for every lambda_L
\* and every T > 0, and so does every lambda_K computed after a successful
\* fit.
C4_KaelionLambdaBounded ==
    /\ \A k \in 1..Len(fn) :
          (fn[k] = "compute_kaelion_lambda" /\ temperature > 0)
              => (0 <= vals[k + 1] /\ vals[k + 1] <= Unit)
    /\ (fit = "ok" /\ lambda_K # None) => (0 <= lambda_K[1] /\ lambda_K[1] <= Unit)

\* C4 witness: a Lyapunov estimate above the bound was clipped to 1
C4_Witness ==
    /\ script = "analysis"
    /\ fn = <<"compute_kaelion_lambda">>
    /\ vals[1] = MaxMag
    /\ temperature = Half
    /\ vals[2] = Unit

\* the two conversions applied one after the other, in either order
IsRoundTrip ==
    \/ fn = <<"compute_alpha", "extract_lambda">>
    \/ fn = <<"extract_lambda", "compute_alpha">>

\* C5 (as stated): the two conversions are mutually inverse for every
\* argument, and lambda in [0, 1] gives alpha in [-1.5, -0.5].
C5_RoundTripExact ==
    /\ IsRoundTrip => vals[3] = vals[1]
    /\ (Len(fn) >= 1 /\ fn[1] = "compute_alpha" /\ 0 <= vals[1] /\ vals[1] <= Unit)
          => (-(Unit + Half) <= vals[2] /\ vals[2] <= -Half)

\* C5 (amended): both conversions compute -0.5 - x in floating point; applied
\* one after the other they return x when -0.5 - x is exactly representable
\* and otherwise a value within twice the rounding error of -0.5 - x; lambda
\* in [0, 1] gives alpha in [-1.5, -0.5].
C5_RoundTripWithinRounding ==
    /\ IsRoundTrip =>
          LET e == Abs(vals[2] - (-Half - vals[1]))
          IN  /\ e = 0 => vals[3] = vals[1]
              /\ Abs(vals[3] - vals[1]) <= 2 * e
    /\ (Len(fn) >= 1 /\ fn[1] = "compute_alpha" /\ 0 <= vals[1] /\ vals[1] <= Unit)
          => (-(Unit + Half) <= vals[2] /\ vals[2] <= -Half)

\* C5 witness: a lambda in (0, 1] that the round trip does not return
C5_Witness ==
    /\ fn = <<"compute_alpha", "extract_lambda">>
    /\ 0 < vals[1] /\ vals[1] <= Unit
    /\ vals[3] # vals[1]

\* C6: every job is awaited before the next one is submitted: at most one
\* job is outstanding and jobs complete in submission order.
C6_OneJobAtATime ==
    script \in HardwareScripts =>
        /\ Cardinality({j \in 1..Len(jobs) : jobs[j] = "running"}) <= 1
        /\ \A j \in 1..(Len(jobs) - 1) : jobs[j] = "done"

\* C6 witness: a later job is outstanding, the earlier ones having completed
C6_Witness ==
    /\ script = "code3_repeticiones"
    /\ Len(jobs) >= 2
    /\ jobs[Len(jobs)] = "running"
    /\ pc = "waiting"

\* C7: in create_syk_otoc the angles and couplings regenerated for backward
\* layer k equal those drawn for forward layer k, and the backward pass
\* applies them in reverse layer order with negated signs.
C7_SykBackwardMatchesForward ==
    (script = "circuits" /\ call.func = "create_syk_otoc") =>
        \A c \in 1..Len(circuits) :
            LET n  == call.n
                P  == Len(Pairs(n))
                fw == circuits[c].forward
                bw == circuits[c].backward
                lo == locals[c]
            IN  \A k \in 0..(DEPTHS[c] - 1) :
                    /\ \A q \in 0..(n - 1) :
                          /\ lo.all_thetas[k + 1][q + 1] = fw[(n + P) * k + q + 1].params[1]
                          /\ lo.all_phis[k + 1][q + 1] = fw[(n + P) * k + q + 1].params[2]
                          /\ bw[(n + P) * (DEPTHS[c] - 1 - k) + P + q + 1].params
                                = <<-lo.all_thetas[k + 1][q + 1], -lo.all_phis[k + 1][q + 1], 0>>
                    /\ \A p \in 1..P :
                          /\ fmul(2 * Unit, lo.all_Js[k + 1][p]) = fw[(n + P) * k + n + p].params[1]
                          /\ bw[(n + P) * (DEPTHS[c] - 1 - k) + p].params
                                = <<fmul(-2 * Unit, lo.all_Js[k + 1][p])>>

\* a gate with its rotation angles negated
negated(g) == [g EXCEPT !.params = [p \in DOMAIN g.params |-> -g.params[p]]]

\* a gate sequence reversed, every angle negated
negated_reverse(q) == [k \in 1..Len(q) |-> negated(q[Len(q) + 1 - k])]

\* adjacent single-qubit gates on distinct qubits commute: the sequence with
\* every such pair put in ascending qubit order
OutOfOrder(q) ==
    {k \in 1..(Len(q) - 1) : /\ Len(q[k].qubits) = 1
                             /\ Len(q[k + 1].qubits) = 1
                             /\ q[k].qubits[1] > q[k + 1].qubits[1]}

RECURSIVE CanonicalOrder(_)
CanonicalOrder(q) ==
    IF OutOfOrder(q) = {} THEN q
    ELSE LET k == CHOOSE k \in OutOfOrder(q) : \A l \in OutOfOrder(q) : k <= l
         IN  CanonicalOrder([q EXCEPT ![k] = q[k + 1], ![k + 1] = q[k]])

IsDeterministicBuilder ==
    /\ script = "circuits"
    /\ call.func \in {"create_kicked_ising_otoc", "create_integrable_otoc"}

\* C8 (as stated): in create_kicked_ising_otoc and create_integrable_otoc the
\* gate sequence between the Z and the closing X is the forward gate
\* sequence reversed, each gate on the same qubits with its angle negated.
C8_BackwardIsReversedForward ==
    IsDeterministicBuilder =>
        \A c \in 1..Len(circuits) :
            circuits[c].backward = negated_reverse(circuits[c].forward)

\* C8 (amended): the backward sequence is the forward sequence reversed with
\* negated angles, except that each block of single-qubit gates (rx, H: one
\* gate per qubit, which commute) is emitted in ascending qubit order again.
C8_BackwardIsReversedForwardUpToOrder ==
    IsDeterministicBuilder =>
        \A c \in 1..Len(circuits) :
            CanonicalOrder(circuits[c].backward)
                = CanonicalOrder(negated_reverse(circuits[c].forward))

\* C8 witness: a kicked Ising circuit of the largest depth and width
C8_Witness ==
    /\ script = "circuits"
    /\ call.func = "create_kicked_ising_otoc"
    /\ call.n = MaxQubits
    /\ Len(circuits) = Len(DEPTHS)
    /\ Len(circuits[Len(circuits)].backward) = MaxDepth * 2 * MaxQubits

IsGate(g) == g.name # "barrier"

\* C9: in create_otoc and create_otoc_v2 the circuit qc_inv is gate for gate
\* the forward evolution block.
C9_InverseBlockEqualsForward ==
    (script = "circuits" /\ call.func \in {"create_otoc", "create_otoc_v2"}) =>
        \A c \in 1..Len(circuits) :
            locals[c].qc_inv = SelectSeq(circuits[c].forward, IsGate)

\* C9 witness: a chaotic create_otoc_v2 circuit of depth MaxDepth
C9_Witness ==
    /\ script = "circuits"
    /\ call.func = "create_otoc_v2"
    /\ call.ctype = "chaotic"
    /\ Len(circuits) = Len(DEPTHS)
    /\ Len(locals[Len(circuits)].qc_inv) = MaxDepth * 2 * call.n

\* C10: otoc_v1_basic.create_otoc seeds alike for all depths: for d1 < d2 the
\* first d1 forward layers of the depth-d2 chaotic circuit are those of the
\* depth-d1 chaotic circuit.
C10_V1RepeatsAngles ==
    (script = "circuits" /\ call.func = "create_otoc_v1" /\ call.ctype = "chaotic") =>
        \A a \in 1..Len(circuits) : \A b \in (a + 1)..Len(circuits) :
            SubSeq(circuits[b].forward, 1, Len(circuits[a].forward)) = circuits[a].forward

\* C10 witness: chaotic circuits of every depth built by otoc_v1_basic
C10_Witness ==
    /\ script = "circuits"
    /\ call.func = "create_otoc_v1"
    /\ call.ctype = "chaotic"
    /\ Len(circuits) = Len(DEPTHS)
    /\ Len(circuits[2].forward) > 0

\* ------------------------------------------------------------------------
\* C11: create_kicked_ising_otoc does not depend on random seeds: every call
\* leaves the global generator as it found it, and two calls with the same
\* arguments return the same circuit whatever state the generator was in
KickedCalls == {k \in 1..Len(history) : history[k].func = "create_kicked_ising_otoc"}

C11_KickedIsingIgnoresGenerator ==
    \A a, b \in KickedCalls :
        /\ history[a].rng_after = history[a].rng_before
        /\ history[a].depth = history[b].depth => history[a].qc = history[b].qc

\* two calls for the same depth were made with the generator in different states
C11_Witness ==
    \E a, b \in KickedCalls :
        /\ history[a].depth = history[b].depth
        /\ history[a].rng_before # history[b].rng_before
        /\ Len(history[a].qc.forward) > 0

\* ------------------------------------------------------------------------
\* the number of cx gates of a circuit
RECURSIVE CountCx(_)
CountCx(q) ==
    IF q = <<>> THEN 0
    ELSE (IF Head(q).name = "cx" THEN 1 ELSE 0) + CountCx(Tail(q))

\* C12: amplify_noise multiplies the number of cx gates by the noise factor:
\* every circuit of the list under construction has noise_factor times the
\* cx gates of the circuit it was amplified from, and is that circuit when
\* the factor is 1
C12_CxCountScalesWithFactor ==
    script = "code4_zne" =>
        \A k \in 1..Len(circuits) :
            /\ CountCx(circuits[k]) = NOISE_FACTORS[factor_k] * CountCx(locals[k].qc)
            /\ NOISE_FACTORS[factor_k] = 1 => circuits[k] = locals[k].qc

\* ------------------------------------------------------------------------
\* the instructions other than cx, in order
RECURSIVE NonCx(_)
NonCx(q) ==
    IF q = <<>> THEN <<>>
    ELSE (IF Head(q).name = "cx" THEN <<>> ELSE <<Head(q)>>) \o NonCx(Tail(q))

\* adjacent pairs of identical cx gates cancelled, from the left
RECURSIVE CancelPairs(_)
CancelPairs(q) ==
    IF Len(q) < 2 THEN q
    ELSE IF q[1].name = "cx" /\ q[2] = q[1] THEN CancelPairs(SubSeq(q, 3, Len(q)))
    ELSE <<q[1]>> \o CancelPairs(Tail(q))

\* C13: amplify_noise preserves the logical circuit: the instructions other
\* than cx are those of the original in the original order, and cancelling
\* adjacent pairs of identical cx gates gives back the original sequence
C13_AmplifyPreservesCircuit ==
    script = "code4_zne" =>
        \A k \in 1..Len(circuits) :
            /\ NonCx(circuits[k]) = NonCx(locals[k].qc)
            /\ CancelPairs(circuits[k]) = locals[k].qc

\* a circuit with cx gates has been amplified by a factor above 1
C13_Witness ==
    /\ script = "code4_zne"
    /\ \E k \in 1..Len(circuits) :
          /\ NOISE_FACTORS[factor_k] > 1
          /\ CountCx(locals[k].qc) > 0
          /\ Len(circuits[k]) > Len(locals[k].qc)

\* ------------------------------------------------------------------------
\* the intercept at 0 of the least squares line through (1, y[1]), (2, y[2])
\* and (3, y[3]) is (4 y[1] + y[2] - 2 y[3]) / 3; its float, clamped
InterceptClamped(y) ==
    LET num == 4 * y[1] + y[2] - 2 * y[3]
        v   == Sign(num) * RoundMag(Sticky(4 * Abs(num), 3))
    IN  IF v < 0 THEN 0 ELSE IF v > Unit THEN Unit ELSE v

\* otoc_zne[k] is the clamped intercept of the values of depth index k
FromSameIndex(zne, by_factor) ==
    \A k \in 1..Len(zne) :
        /\ 0 <= zne[k] /\ zne[k] <= Unit
        /\ zne[k] = InterceptClamped(<<by_factor[1][k], by_factor[2][k], by_factor[3][k]>>)

\* C14: every extrapolated value lies in [0, 1]; each stored otoc_zne has one
\* entry per element of DEPTHS, and the entry of depth index k is computed
\* from the values of index k of every noise factor
C14_ZneClampedPerDepth ==
    script = "code4_zne" =>
        /\ pc = "zne" => FromSameIndex(otoc_zne, otoc_by_factor)
        /\ pc = "ctype" /\ ctype_k > 1 =>
              /\ FromSameIndex(otoc_zne, otoc_by_factor)
              /\ zne_results[CTYPES[ctype_k - 1]].otoc_zne = otoc_zne
        /\ \A c \in DOMAIN zne_results :
              /\ Len(zne_results[c].otoc_zne) = Len(DEPTHS_V2)
              /\ \A k \in 1..Len(DEPTHS_V2) :
                    0 <= zne_results[c].otoc_zne[k] /\ zne_results[c].otoc_zne[k] <= Unit

\* a second circuit type has been extrapolated at every depth; one intercept
\* lay above 1 and another one below 0
C14_Witness ==
    /\ script = "code4_zne" /\ pc = "zne" /\ Len(otoc_zne) = Len(DEPTHS_V2)
    /\ \E k \in 1..Len(otoc_zne) :
          zne_extrapolate(NOISE_FACTORS, [f \in 1..3 |-> otoc_by_factor[f][k]]) > Unit
    /\ \E k \in 1..Len(otoc_zne) :
          zne_extrapolate(NOISE_FACTORS, [f \in 1..3 |-> otoc_by_factor[f][k]]) < 0
    /\ DOMAIN zne_results # {}

\* ------------------------------------------------------------------------
\* C15: every experimental point of Figure 3 lies on the line
\* alpha = -0.5 - lambda: to the four decimals written in DATA, the alpha of
\* each point is -0.5 minus its lambda_K
C15_PointsOnLine ==
    \A k \in 1..Len(points) : points[k].y = -5000 - points[k].x

\* the three points of DATA have been scattered
C15_Witness ==
    /\ script = "generate_figures"
    /\ {points[k].ctype : k \in 1..Len(points)} = {CTYPES[k] : k \in 1..Len(CTYPES)}

====
